---------------------------- MODULE Spec2Model ----------------------------
(***************************************************************************)
(* Chaum-Pedersen non-interactive proof of equality of discrete logs:      *)
(* the facade (chaum-pedersen.js), the Prover (modules/prover.js) and the  *)
(* later Verifier variant (modules/verifier.js, lines 158-333).            *)
(*                                                                         *)
(* JavaScript values are records [t, v, s]: a big-integer ("big", value v),*)
(* a string ("str", characters s), a native number ("num", value v) or     *)
(* undefined ("undef").  Strings are sequences of one-character strings,   *)
(* so that parsing, printing and the concatenation of the hash input are   *)
(* computed and not assumed.                                               *)
(***************************************************************************)
EXTENDS Integers, Sequences, FiniteSets, TLC

(***************************************************************************)
(* JavaScript values                                                       *)
(***************************************************************************)
Big(n) == [t |-> "big", v |-> n, s |-> <<>>]

Str(chars) == [t |-> "str", v |-> 0, s |-> chars]

Num(n) == [t |-> "num", v |-> n, s |-> <<>>]

Undef == [t |-> "undef", v |-> 0, s |-> <<>>]

\* typeof v === 'string'
IsString(val) == val.t = "str"

\* v instanceof bigInteger
IsBig(val) == val.t = "big"

(***************************************************************************)
(* big-integer: decimal printing and parsing                               *)
(***************************************************************************)
DigitChars == <<"0", "1", "2", "3", "4", "5", "6", "7", "8", "9">>

DigitChar(d) == DigitChars[d + 1]

IsDigitChar(c) == \E d \in 0..9 : DigitChars[d + 1] = c

CharDigit(c) == CHOOSE d \in 0..9 : DigitChars[d + 1] = c

RECURSIVE NatToString(_)
NatToString(n) ==
    IF n < 10 THEN <<DigitChar(n)>>
    ELSE NatToString(n \div 10) \o <<DigitChar(n % 10)>>

\* bigInteger.prototype.toString(): the canonical decimal string.
BigToString(n) == IF n < 0 THEN <<"-">> \o NatToString(-n) ELSE NatToString(n)

RECURSIVE DigitsValue(_, _)
DigitsValue(chars, acc) ==
    IF chars = <<>> THEN acc
    ELSE DigitsValue(Tail(chars), acc * 10 + CharDigit(Head(chars)))

AllDigits(chars) ==
    /\ Len(chars) > 0
    /\ \A i \in 1..Len(chars) : IsDigitChar(chars[i])

\* bigInteger(string) accepts an optional sign followed by decimal digits
\* (leading zeros included) and throws "Invalid integer" otherwise.
ParseOK(chars) ==
    IF Len(chars) > 0 /\ chars[1] = "-" THEN AllDigits(Tail(chars))
    ELSE AllDigits(chars)

ParseInt(chars) ==
    IF chars[1] = "-" THEN -DigitsValue(Tail(chars), 0)
    ELSE DigitsValue(chars, 0)

\* value.toString() of a defined value: a string is itself, a big-integer
\* and a native number print in decimal.
JsToString(val) == IF IsString(val) THEN val.s ELSE BigToString(val.v)

(***************************************************************************)
(* big-integer: arithmetic                                                 *)
(***************************************************************************)
\* bigInteger.prototype.mod: the remainder takes the sign of the dividend.
BigMod(a, n) == IF a >= 0 THEN a % n ELSE -((-a) % n)

RECURSIVE Gcd(_, _)
Gcd(a, b) == IF b = 0 THEN a ELSE Gcd(b, a % b)

\* bigInteger.prototype.modInv throws unless the operands are co-prime.
CoPrime(a, n) == Gcd(IF a < 0 THEN -a ELSE a, n) = 1

ModInv(a, n) ==
    IF n = 1 THEN 0
    ELSE IF a < 0 THEN -(CHOOSE t \in 0..(n - 1) : ((-a) * t) % n = 1)
    ELSE CHOOSE t \in 0..(n - 1) : (a * t) % n = 1

RECURSIVE ModPowLoop(_, _, _, _)
ModPowLoop(r, base, exp, mod) ==
    IF exp <= 0 THEN r
    ELSE IF base = 0 THEN 0
    ELSE ModPowLoop(IF exp % 2 = 1 THEN BigMod(r * base, mod) ELSE r,
                    BigMod(base * base, mod), exp \div 2, mod)

\* bigInteger.prototype.modPow(exp, mod) throws for a negative exponent of
\* a base that has no inverse.
ModPowThrows(base, exp, mod) == exp < 0 /\ ~CoPrime(BigMod(base, mod), mod)

ModPow(base, exp, mod) ==
    IF exp < 0
    THEN ModPowLoop(1, ModInv(BigMod(base, mod), mod), -exp, mod)
    ELSE ModPowLoop(1, BigMod(base, mod), exp, mod)

(***************************************************************************)
(* The group engine (basic_simple_elgamal), an external collaborator: an   *)
(* engine is [modulus, generator, groupOrder]; its generator getter hands  *)
(* out the decimal string of g, power(e) is g^e mod p and multiply(a, b)   *)
(* is a*b mod p.                                                           *)
(***************************************************************************)
ElGamal(p, g) == [modulus |-> p, generator |-> g, groupOrder |-> p - 1]

GeneratorString(E) == BigToString(E.generator)

Power(E, e) == ModPow(E.generator, e, E.modulus)

Multiply(E, a, b) == (a * b) % E.modulus

(***************************************************************************)
(* Input normalisation shared by prove and verify                          *)
(***************************************************************************)
\* if(typeof a === 'string') a = bigInteger(a);
\* else if(!(a instanceof bigInteger)) throw ...
ArgThrows(val) == IF IsString(val) THEN ~ParseOK(val.s) ELSE ~IsBig(val)

ArgValue(val) == IF IsString(val) THEN ParseInt(val.s) ELSE val.v

(***************************************************************************)
(* ChaumPedersen constructor (chaum-pedersen.js, lines 46-86).  A group     *)
(* engine passed as p is the value ["engine", v, s]: v the modulus and s    *)
(* the decimal string of the generator its getters hand out.               *)
(***************************************************************************)
Provider(E) == [t |-> "engine", v |-> E.modulus, s |-> GeneratorString(E)]

IsProvider(val) == val.t = "engine"

\* No engine: the facade was not constructed.
NoEngine == [modulus |-> 0, generator |-> 0, groupOrder |-> 0]

\* Lines 50-59: the modulus, or a throw.
CtorModulusThrows(p) ==
    IF IsProvider(p) THEN FALSE
    ELSE IF IsString(p) THEN ~ParseOK(p.s)
    ELSE ~IsBig(p)

CtorModulus(p) ==
    IF IsProvider(p) THEN p.v
    ELSE IF IsString(p) THEN ParseInt(p.s)
    ELSE p.v

\* Lines 61-69: g is looked at only when the engine gave no generator.
CtorGeneratorThrows(p, g) ==
    IF IsProvider(p) THEN FALSE
    ELSE IF IsString(g) THEN ~ParseOK(g.s)
    ELSE ~IsBig(g)

\* Mutant: g, when given, preferred to the engine's generator.
CtorGenerator_PreferG(p, g) ==
    IF IsProvider(p) /\ g.t = "undef" THEN ParseInt(p.s)
    ELSE IF IsString(g) THEN ParseInt(g.s)
    ELSE g.v

CtorGenerator(p, g) ==
    IF IsProvider(p) THEN ParseInt(p.s)
    ELSE IF IsString(g) THEN ParseInt(g.s)
    ELSE g.v

CtorThrows(p, g) == CtorModulusThrows(p) \/ CtorGeneratorThrows(p, g)

(***************************************************************************)
(* The hash: update() appends bytes, digest() maps the accumulated bytes   *)
(* to a number.  The digest of a byte string is fixed the first time it is *)
(* asked for (orc) and any output h may come out then.                     *)
(***************************************************************************)
Digest(orc, data, h) == IF data \in DOMAIN orc THEN orc[data] ELSE h

Remember(orc, data, h) ==
    IF data \in DOMAIN orc THEN orc ELSE (data :> h) @@ orc

(***************************************************************************)
(* Prover.prove (modules/prover.js)                                        *)
(***************************************************************************)
\* Mutant: m passed on unchecked.
ProveArgsThrow_SkipM(r, x, n, m) ==
    ArgThrows(r) \/ ArgThrows(x) \/ ArgThrows(n)

\* Lines 82-97: the four conversions, in order; any of them may throw.
ProveArgsThrow(r, x, n, m) ==
    ArgThrows(r) \/ ArgThrows(x) \/ ArgThrows(n) \/ ArgThrows(m)

\* Line 101: U = this.elgamal.power(commitment).  prove(r, x, n, m) has no
\* fifth parameter: the base the facade passes on is dropped.
ProveU(E, base, k) == Power(E, k)

\* Line 104: V = n.modPow(commitment, this.elgamal.modulus).
ProveV(E, n, k) == ModPow(n, k, E.modulus)

\* Lines 110-114: the five update() calls.
ProveTranscript(E, base, x, m, U, V) ==
    GeneratorString(E) \o BigToString(x) \o BigToString(m)
        \o BigToString(U) \o BigToString(V)

\* Mutant: the secret written to the hash as well.
ProveHashed_WithSecret(E, call, k) ==
    ProveTranscript(E, call.g, ArgValue(call.x), ArgValue(call.m),
                    ProveU(E, call.g, k), ProveV(E, ArgValue(call.n), k))
        \o BigToString(ArgValue(call.r))

\* Lines 100-114: the bytes the call [r, x, n, m, g] writes to the hash
\* object when k is the scalar sampled.
ProveHashed(E, call, k) ==
    ProveTranscript(E, call.g, ArgValue(call.x), ArgValue(call.m),
                    ProveU(E, call.g, k), ProveV(E, ArgValue(call.n), k))

\* Mutant: the challenge term added instead of subtracted.
ProveResponse_Added(E, k, nrc, r) == BigMod(k + nrc * r, E.groupOrder)

\* Line 125: commitment.add(nrc.negate().multiply(r)).mod(groupOrder).
ProveResponse(E, k, nrc, r) == BigMod(k + (-nrc) * r, E.groupOrder)

(***************************************************************************)
(* Verifier.verify (modules/verifier.js, the later variant)                *)
(***************************************************************************)
\* Lines 255-272: x, n, m and the optional g.
VerifyArgsThrow(x, n, m, g) ==
    \/ ArgThrows(x) \/ ArgThrows(n) \/ ArgThrows(m)
    \/ (g.t # "undef" /\ ArgThrows(g))

\* Lines 267-270: g defaults to bigInteger(this.elgamal.generator).
VerifyBase(E, g) ==
    IF g.t = "undef" THEN ParseInt(GeneratorString(E)) ELSE ArgValue(g)

\* Lines 280-281 read proof.U.toString() and proof.V.toString().
TranscriptThrows(pf) == pf.U.t = "undef" \/ pf.V.t = "undef"

\* Mutant: m left out of the transcript.
VerifyTranscript_NoM(gv, xv, mv, pf) ==
    BigToString(gv) \o BigToString(xv) \o JsToString(pf.U) \o JsToString(pf.V)

\* Lines 277-281: the five update() calls.
VerifyTranscript(gv, xv, mv, pf) ==
    BigToString(gv) \o BigToString(xv) \o BigToString(mv)
        \o JsToString(pf.U) \o JsToString(pf.V)

\* Lines 294-299: a string field of the proof is replaced by its parse.
FieldThrows(val) == IsString(val) /\ ~ParseOK(val.s)

ConvertField(val) == IF IsString(val) THEN Big(ParseInt(val.s)) ELSE val

\* The proof object as the conversions leave it: they run in the order
\* U, V, response and stop at the first that throws.
ConvertProof(pf) ==
    IF FieldThrows(pf.U) THEN pf
    ELSE IF FieldThrows(pf.V) THEN [pf EXCEPT !.U = ConvertField(pf.U)]
    ELSE IF FieldThrows(pf.response)
         THEN [pf EXCEPT !.U = ConvertField(pf.U), !.V = ConvertField(pf.V)]
    ELSE [U |-> ConvertField(pf.U), V |-> ConvertField(pf.V),
          response |-> ConvertField(pf.response)]

ConvertThrows(pf) ==
    FieldThrows(pf.U) \/ FieldThrows(pf.V) \/ FieldThrows(pf.response)

\* modPow(proof.response, ...) parses a native number and fails on
\* undefined.
ResponseThrows(resp) == resp.t = "undef"

\* Mutant: the factor x^nrc left out.
ComputedU_NoChallenge(E, gv, xv, nrc, rv) == ModPow(gv, rv, E.modulus)

\* Lines 304, 314-315: g^response * x^nrc mod p.
ComputedU(E, gv, xv, nrc, rv) ==
    Multiply(E, ModPow(gv, rv, E.modulus), ModPow(xv, nrc, E.modulus))

\* Lines 309, 321-322: n^response * m^nrc mod p.
ComputedV(E, nv, mv, nrc, rv) ==
    Multiply(E, ModPow(nv, rv, E.modulus), ModPow(mv, nrc, E.modulus))

\* Line 325: proof.U.equals(..) && proof.V.equals(..); a native number has
\* no equals method, and && does not evaluate its right side after false.
EqualsThrows(field) == field.t = "num"

\* Mutant: only the second commitment compared.
Accepts_OnlyV(U, computedU, V, computedV) == V = computedV

\* Mutant: || for &&.
Accepts_Either(U, computedU, V, computedV) == U = computedU \/ V = computedV

Accepts(U, computedU, V, computedV) == U = computedU /\ V = computedV

Thrown(pf, n, hashed, data, c) ==
    [outcome |-> "error", proof |-> pf, modpows |-> n,
     hashed |-> hashed, data |-> data, c |-> c]

Returned(b, pf, data, c) ==
    [outcome |-> IF b THEN "true" ELSE "false", proof |-> pf, modpows |-> 4,
     hashed |-> TRUE, data |-> data, c |-> c]

\* Lines 242-326: the outcome of verify(pf, x, n, m, g) on engine E, the
\* digest of a byte string not hashed before being h.
VerifyRun(E, orc, h, pf, x, n, m, g) ==
    IF VerifyArgsThrow(x, n, m, g) THEN Thrown(pf, 0, FALSE, <<>>, 0)
    ELSE IF TranscriptThrows(pf) THEN Thrown(pf, 0, FALSE, <<>>, 0)
    ELSE
      LET xv == ArgValue(x)
          nv == ArgValue(n)
          mv == ArgValue(m)
          gv == VerifyBase(E, g)
          data == VerifyTranscript(gv, xv, mv, pf)
          nrc == Digest(orc, data, h)
          pf2 == ConvertProof(pf)
          rv == pf2.response.v
      IN  IF ConvertThrows(pf) THEN Thrown(pf2, 0, TRUE, data, nrc)
          ELSE IF ResponseThrows(pf2.response)
               THEN Thrown(pf2, 2, TRUE, data, nrc)
          ELSE IF ModPowThrows(gv, rv, E.modulus)
               THEN Thrown(pf2, 2, TRUE, data, nrc)
          ELSE IF ModPowThrows(nv, rv, E.modulus)
               THEN Thrown(pf2, 3, TRUE, data, nrc)
          ELSE IF EqualsThrows(pf2.U) THEN Thrown(pf2, 4, TRUE, data, nrc)
          ELSE IF /\ EqualsThrows(pf2.V)
                  /\ pf2.U.v = ComputedU(E, gv, xv, nrc, rv)
               THEN Thrown(pf2, 4, TRUE, data, nrc)
          ELSE Returned(Accepts(pf2.U.v, ComputedU(E, gv, xv, nrc, rv),
                                pf2.V.v, ComputedV(E, nv, mv, nrc, rv)),
                        pf2, data, nrc)

(***************************************************************************)
(* Bounds and inputs                                                       *)
(***************************************************************************)
\* Digests range over 0..MaxHash: below, at and above the group order of
\* the smallest group.
MaxHash == 5

\* prove calls suspended at the random source at one time.
MaxPending == 1

\* Distinct byte strings digested in one run.
MaxDigests == 2

\* (modulus, generator) pairs, g a generator of the whole multiplicative
\* group; the last is the documented scenario p = 23, g = 5.
Groups == {<<5, 2>>, <<23, 5>>}

\* In the small groups every statement is exercised, with big-integer
\* arguments; in the group of the documented scenario its one statement
\* (r = 6, n = 2) is exercised in every representation of the arguments.
Small(E) == E.modulus < 10

HashOutputs == 0..MaxHash

\* What randomGropuMember() returns, from [0, q): all of it in the small
\* groups.
Commitments(E) == IF Small(E) THEN 0..(E.groupOrder - 1) ELSE {3, 14}

Secrets(E) == IF Small(E) THEN 0..(E.groupOrder - 1) ELSE {6}

\* Second bases n: of order 1, q and 2 among them.
SecondBases(E) == IF Small(E) THEN {1, E.generator, E.modulus - 1} ELSE {2}

\* The exponent of x is the secret, or differs from it by 1 or by q/2.
FirstExponents(E, r) ==
    IF Small(E)
    THEN {r, (r + 1) % E.groupOrder, (r + E.groupOrder \div 2) % E.groupOrder}
    ELSE {r}

\* The alternative first base a caller may pass: another generator.
OtherBase(E) ==
    CHOOSE b \in 2..(E.modulus - 1) :
        /\ b # E.generator
        /\ \A e \in 1..(E.groupOrder - 1) : ModPow(b, e, E.modulus) # 1

FirstBases(E) ==
    IF Small(E) THEN {E.generator} ELSE {E.generator, OtherBase(E)}

\* The caller's secret and public statement: m = n^r, x = b^r2.
Statement(E, r, r2, n, b) ==
    [r |-> Big(r), x |-> Big(ModPow(b, r2, E.modulus)), n |-> Big(n),
     m |-> Big(ModPow(n, r, E.modulus)),
     g |-> IF b = E.generator THEN Undef ELSE Big(b)]

AsString(val) == IF IsBig(val) THEN Str(BigToString(val.v)) ELSE val

\* The same statement with every argument a canonical decimal string.
StringStatement(st) == [f \in DOMAIN st |-> AsString(st[f])]

BigStatements(E) ==
    UNION { { Statement(E, r, r2, n, b) :
                r2 \in FirstExponents(E, r), n \in SecondBases(E),
                b \in FirstBases(E) } : r \in Secrets(E) }

Statements(E) ==
    BigStatements(E)
    \cup IF Small(E) THEN {}
         ELSE {StringStatement(st) : st \in {s \in BigStatements(E) : s.g = Undef}}

\* The argument pairs <<p, g>> the facade is constructed with: an engine,
\* an engine and a generator that is not the engine's, the raw pair as
\* big-integers and as strings, and pairs that resolve to no group.
CtorInputs ==
    UNION { { <<Provider(ElGamal(G[1], G[2])), Undef>>,
              <<Provider(ElGamal(G[1], G[2])), Big(OtherBase(ElGamal(G[1], G[2])))>>,
              <<Big(G[1]), Big(G[2])>>,
              <<AsString(Big(G[1])), AsString(Big(G[2]))>>,
              <<Big(G[1]), Undef>>,
              <<AsString(Big(G[1])), Num(G[2])>>,
              <<Num(G[1]), Big(G[2])>>,
              <<Undef, Big(G[2])>>,
              <<Str(<<"z">>), Big(G[2])>>,
              <<Big(G[1]), Str(<<"z">>)>> } : G \in Groups }

\* A decimal string with a leading zero: bigInteger() parses it to the
\* same value.
LeadingZero(val) == Str(<<"0">> \o BigToString(val.v))

Junk == Str(<<"z">>)

\* The argument tuples <<r, x, n, m, g>> prove is called with: the
\* statement, or the statement with one argument of a wrong type.
ProveInputs(E, st) ==
    { <<st.r, st.x, st.n, st.m, st.g>> }
    \cup
    IF Small(E) THEN {}
    ELSE { <<Num(ArgValue(st.r)), st.x, st.n, st.m, st.g>>,
           <<st.r, Undef, st.n, st.m, st.g>>,
           <<st.r, st.x, Junk, st.m, st.g>>,
           <<st.r, st.x, st.n, Num(ArgValue(st.m)), st.g>> }

\* The statement with the first digit of m moved to the end of x, when that
\* leaves m a decimal string without a leading zero (x = 8, m = 18 becomes
\* x = 81, m = 8).
MovedDigit(st) ==
    LET xs == BigToString(ArgValue(st.x))
        ms == BigToString(ArgValue(st.m))
    IN  IF Len(ms) >= 2 /\ ms[1] # "-" /\ ms[2] # "0"
        THEN { <<Big(ParseInt(xs \o <<ms[1]>>)), st.n, Big(ParseInt(Tail(ms))),
                 st.g>> }
        ELSE {}

\* The argument tuples <<x, n, m, g>> verify is called with: the statement
\* and, with the proof as prove returned it, the statement with one
\* argument replaced by another value or by a value of a wrong type.
VerifyInputs(E, st, unaltered) ==
    { <<st.x, st.n, st.m, st.g>> }
    \cup
    IF Small(E) \/ ~unaltered THEN {}
    ELSE { <<st.x, st.n, Big((ArgValue(st.m) + 1) % E.modulus), st.g>>,
           <<st.x, Big(0), st.m, st.g>>,
           <<Num(ArgValue(st.x)), st.n, st.m, st.g>>,
           <<st.x, Undef, st.m, st.g>>,
           <<st.x, st.n, st.m, Num(E.generator)>> }
         \cup MovedDigit(st)

\* A field of a proof in another representation: U as a decimal string
\* with a leading zero or as a native number, V unparseable or missing,
\* the response as a native number or missing.
Forms(field, val) ==
    IF field = "U" THEN {LeadingZero(val), Num(val.v)}
    ELSE IF field = "V" THEN {Junk, Undef}
    ELSE {Num(val.v), Undef}

(***************************************************************************)
(* State                                                                   *)
(***************************************************************************)
VARIABLES
    prover,      \* Prover.elgamal: the prover's engine
    verifier,    \* Verifier.elgamal: the verifier's engine
    hash,        \* prover.js line 40: the module's one hash object
    oracle,      \* the digests computed so far, by hashed byte string
    stmt,        \* the caller's secret and statement
    pending,     \* prove calls suspended at `await randomGropuMember()'
    proof,       \* the proof object the caller holds
    made,        \* the prove call that returned a proof
    ret          \* the call that completed last

vars == <<prover, verifier, hash, oracle, stmt, pending, proof, made, ret>>

NoProof == [U |-> Undef, V |-> Undef, response |-> Undef]

NoCall ==
    [op |-> "none", p |-> Undef, r |-> Undef, x |-> Undef, n |-> Undef, m |-> Undef,
     g |-> Undef, before |-> NoProof, outcome |-> "none", proof |-> NoProof,
     modpows |-> 0, hashed |-> FALSE, data |-> <<>>, c |-> 0,
     sampled |-> FALSE, k |-> 0]

NoStatement ==
    [r |-> Undef, x |-> Undef, n |-> Undef, m |-> Undef, g |-> Undef]

\* The module is loaded (prover.js line 40 has created the hash) and no
\* facade is constructed yet.
Init ==
    /\ prover = NoEngine
    /\ verifier = NoEngine
    /\ stmt = NoStatement
    /\ hash = [data |-> <<>>, finalized |-> FALSE]
    /\ oracle = <<>>
    /\ pending = {}
    /\ proof = NoProof
    /\ made = NoCall
    /\ ret = NoCall

(***************************************************************************)
(* new ChaumPedersen(p, g)                                                 *)
(***************************************************************************)
\* Lines 46-86: a throw leaves no facade; otherwise the Prover and the
\* Verifier each build an engine of the resolved modulus and generator
\* (prover.js line 64, verifier.js line 221).  The caller then settles on
\* a secret and a statement over the group.
Construct(p, g) ==
    LET new == [NoCall EXCEPT !.op = "new", !.p = p, !.g = g]
    IN  /\ prover = NoEngine
        /\ IF CtorThrows(p, g)
           THEN /\ ret' = [new EXCEPT !.outcome = "error"]
                /\ UNCHANGED <<prover, verifier, stmt>>
           ELSE /\ prover' = ElGamal(CtorModulus(p), CtorGenerator(p, g))
                /\ verifier' = ElGamal(CtorModulus(p), CtorGenerator(p, g))
                /\ stmt' \in Statements(
                               ElGamal(CtorModulus(p), CtorGenerator(p, g)))
                /\ ret' = [new EXCEPT !.outcome = "built"]
        /\ UNCHANGED <<hash, oracle, pending, proof, made>>

(***************************************************************************)
(* ChaumPedersen.prove -> Prover.prove                                     *)
(***************************************************************************)
\* Lines 80-100: the call up to its suspension.  A conversion that throws
\* rejects the promise; otherwise randomGropuMember() is called and the
\* call waits for it.
ProveCall(r, x, n, m, g) ==
    /\ prover # NoEngine
    /\ IF ProveArgsThrow(r, x, n, m)
       THEN /\ ret' = [NoCall EXCEPT !.op = "prove", !.r = r, !.x = x,
                                     !.n = n, !.m = m, !.g = g,
                                     !.outcome = "error"]
            /\ UNCHANGED <<prover, verifier, hash, oracle, stmt, pending,
                           proof, made>>
       ELSE /\ Cardinality(pending) < MaxPending
            /\ pending' = pending \cup {[r |-> r, x |-> x, n |-> n,
                                         m |-> m, g |-> g]}
            /\ UNCHANGED <<prover, verifier, hash, oracle, stmt, proof,
                           made, ret>>

\* Lines 100-131: the call from the sampled commitment k on.  update() on a
\* hash that digest() has finalized throws.
ProveResume(call, k) ==
    LET E == prover
        rv == ArgValue(call.r)
        xv == ArgValue(call.x)
        nv == ArgValue(call.n)
        mv == ArgValue(call.m)
        U == ProveU(E, call.g, k)
        V == ProveV(E, nv, k)
        data == ProveHashed(E, call, k)
        done == [NoCall EXCEPT !.op = "prove", !.r = call.r, !.x = call.x,
                               !.n = call.n, !.m = call.m, !.g = call.g,
                               !.sampled = TRUE, !.modpows = 2]
    IN  /\ call \in pending
        /\ pending' = pending \ {call}
        /\ IF hash.finalized
           THEN /\ ret' = [done EXCEPT !.outcome = "error"]
                /\ UNCHANGED <<hash, oracle, proof, made>>
           ELSE \E h \in IF data \in DOMAIN oracle THEN {0} ELSE HashOutputs :
                  LET nrc == Digest(oracle, data, h)
                      res == [done EXCEPT
                                !.outcome = "proof", !.hashed = TRUE,
                                !.k = k, !.data = data, !.c = nrc,
                                !.proof =
                                   [U |-> Big(U), V |-> Big(V),
                                    response |->
                                       Big(ProveResponse(E, k, nrc, rv))]]
                  IN  /\ hash' = [data |-> hash.data \o data,
                                  finalized |-> TRUE]
                      /\ oracle' = Remember(oracle, data, h)
                      /\ proof' = res.proof
                      /\ made' = res
                      /\ ret' = res
        /\ UNCHANGED <<prover, verifier, stmt>>

(***************************************************************************)
(* ChaumPedersen.verify -> Verifier.verify                                 *)
(***************************************************************************)
\* Lines 242-326, on the proof object the caller holds: the object's string
\* fields are overwritten in place (lines 294-299).
Verify(x, n, m, g) ==
    LET first == VerifyRun(verifier, oracle, 0, proof, x, n, m, g)
        fresh == first.hashed /\ first.data \notin DOMAIN oracle
    IN  /\ proof # NoProof
        /\ fresh => Cardinality(DOMAIN oracle) < MaxDigests
        /\ \E h \in IF fresh THEN HashOutputs ELSE {0} :
              LET out == VerifyRun(verifier, oracle, h, proof, x, n, m, g)
              IN  /\ proof' = out.proof
                  /\ oracle' = IF out.hashed
                               THEN Remember(oracle, out.data, h)
                               ELSE oracle
                  /\ ret' = [NoCall EXCEPT
                               !.op = "verify", !.x = x, !.n = n, !.m = m,
                               !.g = g, !.before = proof,
                               !.outcome = out.outcome, !.proof = out.proof,
                               !.modpows = out.modpows,
                               !.hashed = out.hashed, !.data = out.data,
                               !.c = out.c]
        /\ UNCHANGED <<prover, verifier, hash, stmt, pending, made>>

(***************************************************************************)
(* The caller, between calls, with the proof prove returned                *)
(***************************************************************************)
Pristine == ret.outcome = "proof" /\ proof = ret.proof

\* response + 1 modulo the group order q, with either convention for the
\* sign of a remainder.
TamperResponse ==
    /\ Pristine
    /\ \E s \in { BigMod(proof.response.v + 1, prover.groupOrder),
                  (proof.response.v + 1) % prover.groupOrder } :
          proof' = [proof EXCEPT !.response = Big(s)]
    /\ UNCHANGED <<prover, verifier, hash, oracle, stmt, pending, made, ret>>

\* U + 1 modulo p.
TamperU ==
    /\ Pristine
    /\ proof' = [proof EXCEPT !.U = Big((proof.U.v + 1) % prover.modulus)]
    /\ UNCHANGED <<prover, verifier, hash, oracle, stmt, pending, made, ret>>

\* V + 1 modulo p.
TamperV ==
    /\ Pristine
    /\ proof' = [proof EXCEPT !.V = Big((proof.V.v + 1) % prover.modulus)]
    /\ UNCHANGED <<prover, verifier, hash, oracle, stmt, pending, made, ret>>

\* The proof written out with every field a canonical decimal string.
Serialize ==
    /\ Pristine
    /\ ~Small(prover)
    /\ proof' = [U |-> AsString(proof.U), V |-> AsString(proof.V),
                 response |-> AsString(proof.response)]
    /\ UNCHANGED <<prover, verifier, hash, oracle, stmt, pending, made, ret>>

\* One field of the proof in another representation.
Reencode(field) ==
    /\ Pristine
    /\ ~Small(prover)
    /\ \E val \in Forms(field, proof[field]) :
          proof' = [proof EXCEPT ![field] = val]
    /\ UNCHANGED <<prover, verifier, hash, oracle, stmt, pending, made, ret>>

Next ==
    \/ \E a \in CtorInputs : Construct(a[1], a[2])
    \/ \E a \in ProveInputs(prover, stmt) :
          ProveCall(a[1], a[2], a[3], a[4], a[5])
    \/ \E call \in pending, k \in Commitments(prover) : ProveResume(call, k)
    \/ \E a \in VerifyInputs(verifier, stmt, proof = made.proof) :
          Verify(a[1], a[2], a[3], a[4])
    \/ TamperResponse
    \/ TamperU
    \/ TamperV
    \/ Serialize
    \/ \E field \in {"U", "V", "response"} : Reencode(field)

Spec == Init /\ [][Next]_vars

(***************************************************************************)
(* The properties.  What a property asks of a value is stated here in its  *)
(* own terms: an integer-like value is a big-integer or a string of        *)
(* decimal digits with an optional sign, and b^e mod p is computed by      *)
(* repeated multiplication.                                                *)
(***************************************************************************)
IntegerLike(val) == val.t = "big" \/ (val.t = "str" /\ ParseOK(val.s))

IntOf(val) == IF val.t = "str" THEN ParseInt(val.s) ELSE val.v

RECURSIVE Exp(_, _, _)
Exp(b, e, p) == IF e = 0 THEN 1 % p ELSE (b * Exp(b, e - 1, p)) % p

GroupP == verifier.modulus

GroupQ == verifier.groupOrder

GroupG == verifier.generator

InGroup(v) == v \in 1..(GroupP - 1)

\* The exponent of x to the generator, in [0, q).
DLog(x) == CHOOSE e \in 0..(GroupQ - 1) : Exp(GroupG, e, GroupP) = x

\* prove(r, x, n, m) returned a proof, for n in the group and m = n^r.
ProvedDefault ==
    /\ made.op = "prove"
    /\ made.g = Undef
    /\ InGroup(IntOf(made.n))
    /\ InGroup(IntOf(made.x))
    /\ IntOf(made.m) = Exp(IntOf(made.n), IntOf(made.r), GroupP)

\* ... and for x = g^r.
ProvedConsistent ==
    /\ ProvedDefault
    /\ IntOf(made.x) = Exp(GroupG, IntOf(made.r), GroupP)

\* The last call was verify, with the arguments prove was given.
VerifiedSameStatement ==
    /\ ret.op = "verify"
    /\ ret.x = made.x /\ ret.n = made.n /\ ret.m = made.m /\ ret.g = made.g

\* C1: completeness with the default base.  When prove(r, x, n, m) has
\* returned a proof for x = g^r mod p and m = n^r mod p, n in the group,
\* verify(proof, x, n, m) on that proof returns true, whatever the secret,
\* the commitment scalar and the digest were.
C1_Case ==
    ProvedConsistent /\ VerifiedSameStatement /\ ret.before = made.proof

C1_Completeness == C1_Case => ret.outcome = "true"

C1_Witness ==
    /\ C1_Case
    /\ ret.outcome = "true"
    /\ made.proof.response.v < 0
    /\ made.c >= GroupQ

\* C2: completeness with an explicit base.  When prove(r, x, n, m, b) has
\* returned a proof for a base b other than the generator, x = b^r mod p
\* and m = n^r mod p, the proof's U is b^k mod p and verify(proof, x, n, m,
\* b) returns true.
C2_Case ==
    /\ made.op = "prove"
    /\ IntegerLike(made.g)
    /\ InGroup(IntOf(made.g)) /\ IntOf(made.g) # GroupG
    /\ InGroup(IntOf(made.n))
    /\ IntOf(made.x) = Exp(IntOf(made.g), IntOf(made.r), GroupP)
    /\ IntOf(made.m) = Exp(IntOf(made.n), IntOf(made.r), GroupP)

C2_ExplicitBase ==
    C2_Case =>
       /\ made.proof.U.v = Exp(IntOf(made.g), made.k, GroupP)
       /\ (VerifiedSameStatement /\ ret.before = made.proof)
             => ret.outcome = "true"

\* C3: soundness under a wrong secret.  When prove(r, x', n, m') has
\* returned a proof for x' = g^r' mod p, m' = n^r mod p and r' # r, then
\* verify(proof, x', n, m') on that proof returns false.
C3_Case ==
    /\ ProvedDefault
    /\ DLog(IntOf(made.x)) # IntOf(made.r)
    /\ VerifiedSameStatement
    /\ ret.before = made.proof

C3_WrongSecretRejected == C3_Case => ret.outcome = "false"

\* C3 as amended: verify returns false exactly when c * (r' - r) is not a
\* multiple of the group order q, c being the digest the challenge is; it
\* returns true for every other digest.
C3_WrongSecretExact ==
    C3_Case =>
       ret.outcome =
          IF (made.c * (DLog(IntOf(made.x)) - IntOf(made.r))) % GroupQ = 0
          THEN "true" ELSE "false"

C3_Witness == C3_Case /\ ret.outcome = "false" /\ made.c >= GroupQ

\* C4: tampering with the response.  When prove has returned a proof for a
\* consistent statement and its response is replaced by response + 1
\* modulo q, U and V kept, verify(proof, x, n, m) returns false; so it does
\* for p = 23, g = 5, r = 6, x = 8, n = 2, m = 18.
C4_Case ==
    /\ ProvedConsistent
    /\ VerifiedSameStatement
    /\ \E s \in { BigMod(made.proof.response.v + 1, GroupQ),
                  (made.proof.response.v + 1) % GroupQ } :
          ret.before = [made.proof EXCEPT !.response = Big(s)]

C4_TamperedResponse == C4_Case => ret.outcome = "false"

C4_Witness ==
    /\ C4_Case
    /\ GroupP = 23 /\ GroupG = 5
    /\ IntOf(made.r) = 6 /\ IntOf(made.x) = 8
    /\ IntOf(made.n) = 2 /\ IntOf(made.m) = 18
    /\ ret.outcome = "false"

\* C5: tampering with a commitment.  When prove has returned a proof for a
\* consistent statement and exactly one of U and V is replaced by its value
\* plus 1 modulo p, verify(proof, x, n, m) returns false.
C5_CaseU ==
    /\ ProvedConsistent
    /\ VerifiedSameStatement
    /\ ret.before =
          [made.proof EXCEPT !.U = Big((made.proof.U.v + 1) % GroupP)]

C5_CaseV ==
    /\ ProvedConsistent
    /\ VerifiedSameStatement
    /\ ret.before =
          [made.proof EXCEPT !.V = Big((made.proof.V.v + 1) % GroupP)]

C5_TamperedRejected == (C5_CaseU \/ C5_CaseV) => ret.outcome = "false"

\* C5 as amended: with V replaced verify returns false; with U replaced it
\* returns false for every digest c' of the changed transcript but those
\* with n^e = 1 and g^e * U = U + 1 (mod p), e = (c' - c) * r, for which it
\* returns true.
C5_DigestHits ==
    LET e == ((ret.c - made.c) * IntOf(made.r)) % GroupQ
    IN  /\ Exp(IntOf(made.n), e, GroupP) = 1
        /\ (made.proof.U.v * Exp(GroupG, e, GroupP)) % GroupP
              = (made.proof.U.v + 1) % GroupP

C5_TamperedCommitment ==
    /\ C5_CaseV => ret.outcome = "false"
    /\ C5_CaseU => ret.outcome = IF C5_DigestHits THEN "true" ELSE "false"

C5_Witness == C5_CaseU /\ ret.outcome = "false" /\ ret.c # made.c

\* The hash maps no two of the byte strings it was given to one digest.
CollisionFree(orc) ==
    \A a, b \in DOMAIN orc : a # b => orc[a] # orc[b]

\* What a call took as the base and as the proof's commitments.
CallBase(call) == IF call.g = Undef THEN GroupG ELSE IntOf(call.g)

CallProof(call) == IF call.op = "prove" THEN call.proof ELSE call.before

\* Two calls that computed a challenge, for the same base, x, U and V and
\* for second results that differ.
SameButM(a, b) ==
    /\ a.hashed /\ b.hashed
    /\ CallBase(a) = CallBase(b)
    /\ IntOf(a.x) = IntOf(b.x)
    /\ CallProof(a).U = CallProof(b).U
    /\ CallProof(a).V = CallProof(b).V
    /\ IntOf(a.m) # IntOf(b.m)

\* C6: transcript binding.  When a call of prove or verify computes a
\* challenge, and the call completed before it, or the prove call that made
\* the proof, computed one for the same base, x, U and V and another m, the
\* two hashed byte strings differ, and the two challenges differ if the hash
\* has mapped no two byte strings to one digest.
C6_Binds(a, b) ==
    SameButM(a, b) =>
       /\ a.data # b.data
       /\ CollisionFree(oracle') => a.c # b.c

C6_TranscriptBinding ==
    [][ret' # ret => C6_Binds(ret', ret) /\ C6_Binds(ret', made')]_vars

C6_Witness ==
    /\ ret.op = "verify" /\ made.op = "prove"
    /\ SameButM(ret, made)
    /\ CollisionFree(oracle)
    /\ ret.c # made.c

\* C7: determinism of verification.  Two calls of verify in a row with the
\* same x, n, m and base, the second on a proof of the same field values as
\* the first or on the proof object the first was given, return the same
\* result.
C7_SameArguments ==
    /\ ret.op = "verify" /\ ret'.op = "verify"
    /\ ret'.x = ret.x /\ ret'.n = ret.n /\ ret'.m = ret.m /\ ret'.g = ret.g
    /\ ret'.before = ret.before \/ ret'.before = ret.proof

C7_Deterministic ==
    [][C7_SameArguments => ret'.outcome = ret.outcome]_vars

\* C8: verify never throws on well-typed input.  When x, n, m, the base if
\* given and the three fields of the proof are each a big-integer or an
\* integer string, the group elements in [0, p), verify returns true or
\* false.
WellTypedElement(val) == IntegerLike(val) /\ IntOf(val) \in 0..(GroupP - 1)

C8_WellTyped ==
    /\ ret.op = "verify"
    /\ WellTypedElement(ret.x)
    /\ WellTypedElement(ret.n)
    /\ WellTypedElement(ret.m)
    /\ ret.g = Undef \/ WellTypedElement(ret.g)
    /\ WellTypedElement(ret.before.U)
    /\ WellTypedElement(ret.before.V)
    /\ IntegerLike(ret.before.response)

C8_NeverThrows == C8_WellTyped => ret.outcome \in {"true", "false"}

\* C9: prove rejects malformed input before doing any work.  When a call of
\* prove completes and one of its r, x, n, m is neither a big-integer nor an
\* integer string, it has failed with an error, no scalar was sampled, no
\* modular exponentiation ran, it returned no proof, and the hash object,
\* the digests computed, the prover's engine, the caller's proof and the
\* suspended calls are as they were.
Malformed(val) == ~IntegerLike(val)

C9_Case(call) ==
    /\ call.op = "prove"
    /\ Malformed(call.r) \/ Malformed(call.x) \/ Malformed(call.n)
          \/ Malformed(call.m)

C9_RejectsFirst ==
    [][ (ret' # ret /\ C9_Case(ret')) =>
           /\ ret'.outcome = "error"
           /\ ~ret'.sampled
           /\ ret'.modpows = 0
           /\ ret'.proof = NoProof
           /\ hash' = hash /\ oracle' = oracle /\ prover' = prover
           /\ proof' = proof /\ made' = made /\ pending' = pending ]_vars

C9_Witness ==
    /\ C9_Case(ret)
    /\ ret.outcome = "error" /\ ~ret.sampled /\ ret.modpows = 0
    /\ made.op = "prove" /\ proof = made.proof
    /\ hash.finalized

\* C10: verify rejects malformed input by throwing.  When one of x, n, m,
\* the base if given, proof.U, proof.V or proof.response is neither a
\* big-integer nor an integer string, verify has thrown, and no modular
\* exponentiation ran before it did.
C10_Case ==
    /\ ret.op = "verify"
    /\ \/ Malformed(ret.x) \/ Malformed(ret.n) \/ Malformed(ret.m)
       \/ (ret.g # Undef /\ Malformed(ret.g))
       \/ Malformed(ret.before.U) \/ Malformed(ret.before.V)
       \/ Malformed(ret.before.response)

C10_ThrowsFirst == C10_Case => (ret.outcome = "error" /\ ret.modpows = 0)

\* C11: facade construction.  new ChaumPedersen(p, g) throws exactly when
\* p is no engine and p and g are not both a big-integer or an integer
\* string, and then no Prover and no Verifier exists; otherwise the Prover
\* and the Verifier hold the same modulus and generator: the engine's when
\* p is an engine, p and g otherwise.
C11_Resolvable(p, g) ==
    IsProvider(p) \/ (IntegerLike(p) /\ IntegerLike(g))

C11_Built(call, pr, ve) ==
    IF C11_Resolvable(call.p, call.g)
    THEN /\ call.outcome = "built"
         /\ pr = ve
         /\ pr.modulus =
               IF IsProvider(call.p) THEN call.p.v ELSE IntOf(call.p)
         /\ pr.generator =
               IF IsProvider(call.p) THEN ParseInt(call.p.s)
               ELSE IntOf(call.g)
    ELSE /\ call.outcome = "error"
         /\ pr = NoEngine /\ ve = NoEngine

C11_Construction ==
    [][(ret' # ret /\ ret'.op = "new")
          => C11_Built(ret', prover', verifier')]_vars

C11_Witness ==
    /\ ret.op = "new" /\ ret.outcome = "built"
    /\ IsProvider(ret.p) /\ IntegerLike(ret.g)
    /\ IntOf(ret.g) # prover.generator
    /\ C11_Built(ret, prover, verifier)

\* C12: calls are independent.  A call of prove with four integer-like
\* arguments returns a proof, whatever calls were made before it, and the
\* hash context it digested holds the bytes of its own five operands and
\* no others.
C12_Case ==
    /\ ret.op = "prove"
    /\ IntegerLike(ret.r) /\ IntegerLike(ret.x)
    /\ IntegerLike(ret.n) /\ IntegerLike(ret.m)

C12_Independent ==
    C12_Case => (ret.outcome = "proof" /\ hash.data = ret.data)

\* C13: verify leaves its arguments unchanged.  A step that completes a
\* call of verify, returning or throwing, leaves the three fields of the
\* caller's proof with the values and representations they had, and the
\* Verifier's engine as it was.
C13_ReadOnly ==
    [][ret'.op = "verify" => (proof' = proof /\ verifier' = verifier)]_vars

\* C14: the secret is not retained.  When prove(r, x, n, m) returns a
\* proof, the hash object, the digests computed and the two engines are as
\* the same call with any other secret r2, the same sampled scalar and the
\* same hash function would leave them, and so are the proof's U and V.
C14_OtherSecret(call, r2) ==
    [r |-> Big(r2), x |-> call.x, n |-> call.n, m |-> call.m, g |-> call.g]

C14_NotRetained ==
    [][(ret' # ret /\ ret'.op = "prove" /\ ret'.outcome = "proof") =>
          /\ prover' = prover /\ verifier' = verifier
          /\ ret'.proof.U.v = Exp(GroupG, ret'.k, GroupP)
          /\ ret'.proof.V.v = Exp(IntOf(ret'.n), ret'.k, GroupP)
          /\ \A r2 \in 0..(GroupQ - 1) :
                LET bytes == ProveHashed(prover, C14_OtherSecret(ret', r2),
                                         ret'.k)
                IN  /\ hash' = [data |-> hash.data \o bytes,
                                finalized |-> TRUE]
                    /\ oracle' = Remember(oracle, bytes, ret'.c)]_vars

\* ... a state where the response shows the secret matters: another secret
\* gives another response.
C14_Witness ==
    /\ ret.op = "prove" /\ ret.outcome = "proof"
    /\ hash.finalized /\ hash.data = ret.data
    /\ \E r2 \in 0..(GroupQ - 1) :
          (ret.k - ret.c * r2) % GroupQ
             # (ret.k - ret.c * IntOf(ret.r)) % GroupQ

\* C15: prove and verify derive the same challenge.  When verify is called
\* with the x, m, U and V a call of prove hashed, the base omitted in both
\* calls or given as the same value in both, verify hashes the bytes prove
\* hashed and obtains the challenge prove obtained.
C15_Case ==
    /\ made.op = "prove" /\ ret.op = "verify" /\ ret.hashed
    /\ ret.g = made.g
    /\ IntOf(ret.x) = IntOf(made.x)
    /\ IntOf(ret.m) = IntOf(made.m)
    /\ ret.before.U = made.proof.U
    /\ ret.before.V = made.proof.V

C15_SameChallenge ==
    C15_Case => (ret.data = made.data /\ ret.c = made.c)

\* C16: the challenge is reduced modulo the group order.  The challenge a
\* call of prove or verify computes and uses as c is in [0, q).
C16_Reduced ==
    (ret.op \in {"prove", "verify"} /\ ret.hashed)
       => ret.c \in 0..(GroupQ - 1)

\* C17: the response is a canonical scalar.  The response of a proof that
\* prove returns is (k - c*r) mod q, in [0, q) and never negative.
C17_Canonical ==
    (ret.op = "prove" /\ ret.outcome = "proof") =>
       /\ ret.proof.response.v \in 0..(GroupQ - 1)
       /\ ret.proof.response.v
             = (ret.k - ret.c * IntOf(ret.r)) % GroupQ

\* C18: the transcript encoding is injective.  When a call of verify and
\* the call of prove that made the proof hash operand tuples (base, x, m,
\* U, V) that differ, the byte strings they hash differ.
C18_Operands(call) ==
    << IF call.op = "prove" THEN GroupG ELSE CallBase(call),
       IntOf(call.x), IntOf(call.m),
       CallProof(call).U.v, CallProof(call).V.v >>

C18_Case ==
    /\ made.op = "prove" /\ ret.op = "verify" /\ ret.hashed
    /\ IsBig(ret.before.U) /\ IsBig(ret.before.V)
    /\ C18_Operands(ret) # C18_Operands(made)

C18_Injective == C18_Case => ret.data # made.data

=============================================================================
